---- MODULE Spec2Model ----
(***************************************************************************)
(* Join (src/future/join/tuple.rs) and Merge (src/stream/merge/array.rs)   *)
(* of futures-concurrency, together with the readiness bitmap and the      *)
(* delegating wakers they share (src/utils/wakers/vec).                    *)
(*                                                                         *)
(* One behaviour follows one combinator instance, a Join or a Merge over   *)
(* LEN children, from construction on.  An outer poll is a sequence of     *)
(* steps, one per critical section of the readiness lock and one per child *)
(* poll, because wakers fired from other threads interleave with it        *)
(* wherever the lock is free.                                              *)
(***************************************************************************)
EXTENDS Integers, FiniteSets, Sequences, TLC

\* Largest number of children of an instance.
MaxN == 2
\* Largest number of items one input stream of a Merge produces.
MaxItems == 2

Slots == 0 .. (MaxN - 1)
\* Outer wakers.  Every outer poll supplies its own: "latest" is the one of
\* the most recent outer poll, "stale" the one of any earlier outer poll.
NoWaker == "none"
Latest == "latest"
Stale == "stale"
\* A child that fires no waker inside its poll.
NoWake == MaxN
\* MaybeUninit::uninit()
Uninit == 0

VARIABLES
    kind,          \* "join" or "merge": the combinator this behaviour follows
    LEN,           \* number of children (tuple arity / array length N)
    pc,            \* position of the outer caller: idle, child, relock,
                   \* done (final result returned), panicked, dropped
    index,         \* loop variable `index` of poll / poll_next
    lock,          \* readiness mutex: "free" or "poll" (held by the guard
                   \* `readiness` of the running poll)
    ready,         \* ReadinessVec: the ready flag of every slot
    parent_waker,  \* ReadinessVec: the stored outer waker, NoWaker if None
    wokenBy,       \* outer waker invoked since the last outer poll began
    avail,         \* child i would make progress if polled now
    cdone,         \* child i returned its value / reported exhaustion
    reg,           \* child i keeps its waker to fire it once it can progress
    handed,        \* slot i's waker has been handed to the child
    state,         \* Join: PollArray, the lifecycle state of every slot
    outputs,       \* Join: the MaybeUninit output cells
    completed,     \* Join: number of children that produced a value
    out,           \* Join: the tuple returned with Poll::Ready, <<>> before
    order,         \* Join: the slots in the order their children completed
    writes,        \* Join: number of writes into every output cell
    destroyed,     \* Join: number of assume_init_drop calls on every cell
    fault,         \* an uninitialized cell was read or destroyed
    deadlock,      \* a waker fired inside a child poll found the lock held
    fired,         \* the waker the last child poll of the running outer
                   \* poll fired from inside, NoWake if none
    badPoll,       \* a child was polled after it had finished
    ret,           \* what the last outer poll returned
    repoll,        \* outcome of an outer poll begun after the final result
    remaining,     \* Merge: items child i has not yielded yet
    fused,         \* Merge: Fuse's `done` flag of every slot
    complete,      \* Merge: the completion counter
    passed,        \* Merge: consecutive yields that passed over ready child i
    start,         \* Merge: value of rng.generate in the running poll_next
    immediate,     \* Merge: every child poll so far returned an item
    polls,         \* slots whose child the running outer poll has polled
    skipped        \* Join: slots of finished children whose set flag the
                   \* running poll consumed without polling them
                   \* (index, start, polls, skipped are locals: reset at
                   \* return)

vars == << kind, LEN, pc, index, lock, ready, parent_waker, wokenBy,
           avail, cdone, reg, handed, state, outputs, completed, out, order,
           writes, destroyed, fault, deadlock, fired, badPoll, ret, repoll, remaining, fused,
           complete, passed, start, immediate, polls, skipped >>

joinVars == << state, outputs, completed, out, order, writes, destroyed >>
mergeVars == << remaining, fused, complete, passed, start, immediate >>

Live == { i \in Slots : i < LEN }

\* Slot i polled in the running outer poll.
CountPoll(p, i) == p \cup {i}

\* No child polled yet in this outer poll.
NoPolls == {}

\* The value child i produces.
ChildValue(i) == 10 + i

----
\* ReadinessVec

\* ReadinessVec::any_ready
any_ready(r) == \E i \in Slots : r[i]

\* ReadinessVec::clear_ready: the flags afterwards (the result is r[i]).
clear_ready(r, i) == [r EXCEPT ![i] = FALSE]

\* ReadinessVec::set_ready
set_ready(r, i) == [r EXCEPT ![i] = TRUE]

\* Every flag cleared at once.
Consume_All(r, i) == [j \in Slots |-> FALSE]

\* `readiness.clear_ready(index)` in the scans of poll and poll_next: the
\* flags after slot i's flag was consumed.
Consume(r, i) == clear_ready(r, i)

\* ReadinessVec::set_waker with the waker of the poll that calls it: the
\* stored waker afterwards.
set_waker(pw) == Latest

\* The waker a previous poll stored, seen from the next outer poll.
Aged(pw) == IF pw = NoWaker THEN NoWaker ELSE Stale

\* InlineWaker::wake for slot w, as the pair << flags, invoked outer waker >>:
\* set the slot's flag, then invoke the stored outer waker if there is one.
wake(r, pw, wb, w) ==
    IF w = NoWake THEN << r, wb >>
    ELSE << set_ready(r, w), IF pw # NoWaker THEN pw ELSE wb >>

----
\* Construction

\* WakerVec::new / ReadinessVec::new: every live slot starts ready.
WakerVecNew(n) == [i \in Slots |-> i < n]

\* PollArray::new
PollArrayNew == [i \in Slots |-> "Pending"]

InitCommon ==
    /\ LEN \in 0 .. MaxN
    /\ pc = "idle"
    /\ index = 0
    /\ lock = "free"
    /\ ready = WakerVecNew(LEN)
    /\ parent_waker = NoWaker
    /\ wokenBy = NoWaker
    /\ avail \in [Slots -> BOOLEAN]
    /\ \A i \in Slots : i >= LEN => ~avail[i]
    /\ cdone = [i \in Slots |-> FALSE]
    /\ reg = [i \in Slots |-> FALSE]
    /\ handed = [i \in Slots |-> FALSE]
    /\ fault = FALSE
    /\ deadlock = FALSE
    /\ fired = NoWake
    /\ badPoll = FALSE
    /\ ret = "none"
    /\ repoll = "none"
    /\ polls = NoPolls
    /\ skipped = {}

\* JoinTrait::join
JoinNew ==
    /\ state = PollArrayNew
    /\ outputs = [i \in Slots |-> Uninit]
    /\ completed = 0
    /\ out = << >>
    /\ order = << >>
    /\ writes = [i \in Slots |-> 0]
    /\ destroyed = [i \in Slots |-> 0]

\* Merge::new
MergeNew ==
    /\ remaining \in [Slots -> 0 .. MaxItems]
    /\ \A i \in Slots : i >= LEN => remaining[i] = 0
    /\ fused = [i \in Slots |-> FALSE]
    /\ complete = 0
    /\ passed = [i \in Slots |-> 0]
    /\ start = 0
    /\ immediate = \A i \in Live : avail[i]

\* The fields of the other combinator stay at fixed values.
JoinIdle ==
    /\ state = PollArrayNew
    /\ outputs = [i \in Slots |-> Uninit]
    /\ completed = 0
    /\ out = << >>
    /\ order = << >>
    /\ writes = [i \in Slots |-> 0]
    /\ destroyed = [i \in Slots |-> 0]

MergeIdle ==
    /\ remaining = [i \in Slots |-> 0]
    /\ fused = [i \in Slots |-> FALSE]
    /\ complete = 0
    /\ passed = [i \in Slots |-> 0]
    /\ start = 0
    /\ immediate = FALSE

Init ==
    /\ InitCommon
    /\ \/ kind = "join" /\ JoinNew /\ MergeIdle
       \/ kind = "merge" /\ MergeNew /\ JoinIdle

----
\* Wakers fired by the environment

\* A child that could not progress becomes able to, and fires the waker it
\* kept from its last poll, if it kept one (InlineWaker::wake).
ChildProgress(i) ==
    /\ i \in Live
    /\ pc \notin {"dropped", "panicked"}
    /\ ~avail[i]
    /\ ~cdone[i]
    /\ lock = "free"
    /\ avail' = [avail EXCEPT ![i] = TRUE]
    /\ reg' = [reg EXCEPT ![i] = FALSE]
    /\ ready' = wake(ready, parent_waker, wokenBy, IF reg[i] THEN i ELSE NoWake)[1]
    /\ wokenBy' = wake(ready, parent_waker, wokenBy, IF reg[i] THEN i ELSE NoWake)[2]
    /\ UNCHANGED << kind, LEN, pc, index, lock, parent_waker, cdone,
                    handed, fault, deadlock, fired, badPoll, ret, repoll,
                    polls, skipped >>
    /\ UNCHANGED joinVars
    /\ UNCHANGED mergeVars

\* InlineWaker::wake on a clone of slot i's waker, at any time after the
\* waker was handed out: repeated, late, after completion, after drop.
LateWake(i) ==
    /\ i \in Live
    /\ handed[i]
    /\ lock = "free"
    /\ ready' = wake(ready, parent_waker, wokenBy, i)[1]
    /\ wokenBy' = wake(ready, parent_waker, wokenBy, i)[2]
    /\ UNCHANGED << kind, LEN, pc, index, lock, parent_waker, avail,
                    cdone, reg, handed, fault, deadlock, fired, badPoll, ret,
                    repoll, polls, skipped >>
    /\ UNCHANGED joinVars
    /\ UNCHANGED mergeVars

\* The wakers a child may fire inside its own poll: none, its own, or one
\* of another slot that was handed out before.
SyncWakes(i) == {NoWake, i} \cup { j \in Live : handed[j] }

----
\* Join

\* The guard `readiness` kept across the child poll.
Unlock_Kept == "poll"

\* `drop(readiness)` before the child poll: the lock afterwards.
Unlock == "free"

\* The outer waker not stored.
RegisterWaker_Skipped(pw) == pw

\* `readiness.set_waker(cx.waker())` at the head of poll and poll_next.
RegisterWaker(pw) == set_waker(pw)

\* A slot skipped only when its flag is clear.
SkipSlot_FlagOnly(r, k) == ~r[k]

\* `!readiness.clear_ready(index) || this.state[index].is_ready()`: slot k
\* is skipped, given the flags r before clear_ready.
SkipSlot(r, k) == ~r[k] \/ state[k] = "Ready"

\* The turns of `for index in 0..LEN` made in one critical section, from
\* index k with flags r: << flags, index, "child" or "pending" >>.
RECURSIVE JoinScanFrom(_, _)
JoinScanFrom(r, k) ==
    IF k >= LEN \/ ~any_ready(r)
      THEN << r, k, "pending" >>
    ELSE IF SkipSlot(r, k)
      THEN JoinScanFrom(Consume(r, k), k + 1)
    ELSE << Consume(r, k), k, "child" >>

\* The slots from k up to k1 that the scan passed by `continue` although
\* their flag was set in r: those of children that had produced their value.
Passed_Ready(r, k, k1) ==
    { j \in Live : k <= j /\ j < k1 /\ r[j] /\ state[j] = "Ready" }

\* The end of a critical section of Join::poll: the child poll of the slot
\* found, or Poll::Pending.
JoinScan(r, k, p) ==
    LET found == JoinScanFrom(r, k) IN
    /\ ready' = found[1]
    /\ fired' = NoWake
    /\ IF found[3] = "child"
         THEN /\ pc' = "child"
              /\ lock' = Unlock
              /\ index' = found[2]
              /\ polls' = p
              /\ skipped' = skipped \cup Passed_Ready(r, k, found[2])
              /\ UNCHANGED ret
         ELSE /\ pc' = "idle"
              /\ lock' = "free"
              /\ index' = 0
              /\ polls' = NoPolls
              /\ skipped' = {}
              /\ ret' = "pending"

\* Pending, as the scan of a Join with no flag set answers.
Join0Result_Pending == "pending"

\* `Poll::Ready(())`: what Join0::poll returns.
Join0Result == "ready"

\* Join0::poll: the join of the empty tuple.
Join0Poll ==
    /\ kind = "join"
    /\ LEN = 0
    /\ pc \in {"idle", "done"}
    /\ pc' = IF Join0Result = "ready" THEN "done" ELSE pc
    /\ ret' = Join0Result
    /\ out' = << >>
    /\ repoll' = IF pc = "done" THEN "ready" ELSE repoll
    /\ parent_waker' = Aged(parent_waker)
    /\ UNCHANGED << kind, LEN, index, lock, ready, wokenBy, avail, cdone, reg,
                    handed, state, outputs, completed, order, writes,
                    destroyed, fault, deadlock, fired, badPoll, polls,
                    skipped >>
    /\ UNCHANGED mergeVars

\* `assert!(all_completed, ...)`: whether the assertion of Join::poll fails.
AssertFails == completed = LEN

\* Join::poll from its head to the first child poll: the assertion, lock,
\* set_waker and the scan.
JoinPollHead ==
    /\ lock = "free"
    /\ IF AssertFails
         THEN /\ pc' = "panicked"
              /\ ret' = "panic"
              /\ parent_waker' = Aged(parent_waker)
              /\ UNCHANGED << lock, index, wokenBy, polls, skipped, ready,
                              fired >>
         ELSE /\ parent_waker' = RegisterWaker(Aged(parent_waker))
              /\ wokenBy' = NoWaker
              /\ JoinScan(ready, 0, NoPolls)
    /\ UNCHANGED << kind, LEN, avail, cdone, reg, handed, fault, deadlock,
                    badPoll >>
    /\ UNCHANGED joinVars
    /\ UNCHANGED mergeVars

\* Join::poll called before it has returned Poll::Ready.
JoinPollBegin ==
    /\ kind = "join"
    /\ LEN > 0
    /\ pc = "idle"
    /\ JoinPollHead
    /\ UNCHANGED repoll

\* Join::poll called again after it returned Poll::Ready.
JoinPollAgain ==
    /\ kind = "join"
    /\ LEN > 0
    /\ pc = "done"
    /\ JoinPollHead
    /\ repoll' = IF AssertFails THEN "panic" ELSE "polled"

\* The tuple assembled from the output cells (assume_init of every cell).
Assemble(cells) == [i \in 1 .. LEN |-> cells[i - 1]]

\* PollArray::set_all_completed
set_all_completed(st) == [i \in Slots |-> IF i < LEN THEN "Consumed" ELSE st[i]]

\* The slot states left as they are when the tuple is returned.
MarkCompleted_Omitted(st) == st

\* `this.state.set_all_completed()` before `return Poll::Ready(out)`.
MarkCompleted(st) == set_all_completed(st)

\* The value written to the neighbouring cell.
OutputCell_Shifted(i) == (i + 1) % LEN

\* poll!: the cell a value produced by child i is written to.
OutputCell(i) == i

\* A waker w fired from inside a child poll: << flags, invoked outer waker,
\* deadlocked >>.  The waker needs the readiness lock.
SyncWake(w) ==
    IF w # NoWake /\ lock # "free"
      THEN << ready, wokenBy, TRUE >>
      ELSE << wake(ready, parent_waker, wokenBy, w)[1],
              wake(ready, parent_waker, wokenBy, w)[2], deadlock >>

\* A completion counted twice.
CountCompleted_Twice(c) == c + 2

\* poll!: `*this.completed += 1` after a child returned its value.
CountCompleted(c) == c + 1

\* The child poll of slot `index` and what follows it up to the relock.
JoinChildPoll ==
    /\ kind = "join"
    /\ pc = "child"
    /\ handed' = [handed EXCEPT ![index] = TRUE]
    /\ badPoll' = (badPoll \/ cdone[index])
    /\ \E w \in SyncWakes(index) :
         /\ ready' = SyncWake(w)[1]
         /\ wokenBy' = SyncWake(w)[2]
         /\ deadlock' = SyncWake(w)[3]
         /\ IF avail[index] /\ ~cdone[index]
              THEN \* Poll::Ready(value)
                /\ cdone' = [cdone EXCEPT ![index] = TRUE]
                /\ reg' = [reg EXCEPT ![index] = FALSE]
                /\ order' = Append(order, index)
                /\ writes' = [writes EXCEPT ![OutputCell(index)] = @ + 1]
                /\ completed' = CountCompleted(completed)
                /\ LET written == [outputs EXCEPT
                                     ![OutputCell(index)] = ChildValue(index)]
                       marked == [state EXCEPT ![index] = "Ready"]
                   IN  IF completed' = LEN
                         THEN /\ out' = Assemble(written)
                              /\ fault' = (fault \/ \E i \in Live :
                                                        written[i] = Uninit)
                              /\ outputs' = [i \in Slots |-> Uninit]
                              /\ state' = MarkCompleted(marked)
                              /\ pc' = "done"
                              /\ ret' = "ready"
                              /\ index' = 0
                              /\ polls' = NoPolls
                              /\ skipped' = {}
                              /\ fired' = NoWake
                         ELSE /\ outputs' = written
                              /\ state' = marked
                              /\ pc' = "relock"
                              /\ polls' = CountPoll(polls, index)
                              /\ fired' = w
                              /\ UNCHANGED << out, fault, ret, index,
                                              skipped >>
              ELSE \* Poll::Pending: the child keeps the waker
                /\ reg' = [reg EXCEPT ![index] = ~cdone[index]]
                /\ pc' = "relock"
                /\ polls' = CountPoll(polls, index)
                /\ fired' = w
                /\ UNCHANGED << cdone, order, writes, outputs, state,
                                completed, out, fault, ret, index, skipped >>
    /\ UNCHANGED << kind, LEN, lock, parent_waker, avail, destroyed, repoll >>
    /\ UNCHANGED mergeVars

\* The scan resumed at the slot just polled, as a `loop` would.
ResumeAt_Same(idx) == idx

\* `for index in 0..LEN`: the slot the scan resumes at after the child poll
\* of slot idx.
ResumeAt(idx) == idx + 1

\* `readiness = this.wakers.readiness().lock().unwrap()`, the loop step and
\* the scan up to the next child poll.
JoinRelock ==
    /\ kind = "join"
    /\ pc = "relock"
    /\ lock = "free"
    /\ JoinScan(ready, ResumeAt(index), polls)
    /\ UNCHANGED << kind, LEN, parent_waker, wokenBy, avail, cdone, reg,
                    handed, fault, deadlock, badPoll, repoll >>
    /\ UNCHANGED joinVars
    /\ UNCHANGED mergeVars

\* Every cell destroyed, whatever its slot's state.
DropSet_All(st) == Live

\* drop_outputs!: the cells destroyed by a drop, given the slot states.
DropSet(st) == { i \in Live : st[i] = "Ready" }

\* PinnedDrop::drop of a Join, between two polls or after the last.
JoinDrop ==
    /\ kind = "join"
    /\ LEN > 0
    /\ pc \in {"idle", "done"}
    /\ destroyed' = [i \in Slots |->
                       IF i \in DropSet(state) THEN destroyed[i] + 1
                                               ELSE destroyed[i]]
    /\ fault' = (fault \/ \E i \in DropSet(state) : outputs[i] = Uninit)
    /\ outputs' = [i \in Slots |->
                     IF i \in DropSet(state) THEN Uninit ELSE outputs[i]]
    /\ state' = [i \in Slots |->
                   IF i \in DropSet(state) THEN "Consumed" ELSE state[i]]
    /\ pc' = "dropped"
    /\ UNCHANGED << kind, LEN, index, lock, ready, parent_waker, wokenBy,
                    avail, cdone, reg, handed, completed, out, order, writes,
                    deadlock, fired, badPoll, ret, repoll, polls, skipped >>
    /\ UNCHANGED mergeVars

----
\* Merge

\* RandomGenerator::generate(n): an index below n, 0 when n is 0.
generate(n) == IF n = 0 THEN {0} ELSE 0 .. (n - 1)

\* The scan stepping two slots on.
NextIndex_Two(idx, n) == (idx + 2) % n

\* `index = (index + 1).wrapping_rem(this.streams.len())`
NextIndex(idx, n) == (idx + 1) % n

\* The turns of `loop` made in one critical section, from index idx with
\* flags r: << flags, index, "child" or "pending" >>.
RECURSIVE MergeScanFrom(_, _)
MergeScanFrom(r, idx) ==
    IF ~any_ready(r)
      THEN << r, idx, "pending" >>
    ELSE IF ~r[NextIndex(idx, LEN)]
      THEN MergeScanFrom(r, NextIndex(idx, LEN))
    ELSE << Consume(r, NextIndex(idx, LEN)), NextIndex(idx, LEN),
            "child" >>

\* The end of a critical section of Merge::poll_next: the child poll of the
\* slot found, or Poll::Pending.
MergeScan(r, idx, s, p) ==
    LET found == MergeScanFrom(r, idx) IN
    /\ ready' = found[1]
    /\ fired' = NoWake
    /\ IF found[3] = "child"
         THEN /\ pc' = "child"
              /\ lock' = Unlock
              /\ index' = found[2]
              /\ start' = s
              /\ polls' = p
              /\ UNCHANGED ret
         ELSE /\ pc' = "idle"
              /\ lock' = "free"
              /\ index' = 0
              /\ start' = 0
              /\ polls' = NoPolls
              /\ ret' = "pending"

\* Merge::poll_next up to the first child poll: generate, lock, set_waker
\* and the scan.
MergePollBegin ==
    /\ kind = "merge"
    /\ pc = "idle"
    /\ lock = "free"
    /\ parent_waker' = RegisterWaker(Aged(parent_waker))
    /\ wokenBy' = NoWaker
    /\ \E s \in generate(LEN) : MergeScan(ready, s, s, NoPolls)
    /\ UNCHANGED << kind, LEN, avail, cdone, reg, handed, fault, deadlock,
                    badPoll, repoll, skipped >>
    /\ UNCHANGED << remaining, fused, complete, passed, immediate >>
    /\ UNCHANGED joinVars

\* `if *this.complete == this.streams.len()`
AllComplete(c) == c = LEN

\* The slot not marked ready again after an item.
Remark_Forgotten(r, i) == r

\* `this.wakers.readiness().lock().unwrap().set_ready(index)` after an item.
Remark(r, i) == set_ready(r, i)

\* The input streams stored as they are.
Wrapped_Bare == FALSE

\* `streams: streams.map(Fuse::new)`: every input stream is stored in a Fuse.
Wrapped == TRUE

\* The poll of slot i reaches the stream the caller passed in.
PollsInner(i) == ~(Wrapped /\ fused[i])

\* Fuse::poll_next of slot i: "done" without the inner stream once fused,
\* else what the inner stream answers.
FusePoll(i) ==
    IF ~PollsInner(i) THEN "done"
    ELSE IF ~avail[i] THEN "pending"
    ELSE IF remaining[i] > 0 THEN "item"
    ELSE "done"

\* The yields that passed over every other child that had an item ready,
\* counted while every child has answered every poll with an item.
Passed(i, av, rem) ==
    [j \in Slots |-> IF j # i /\ j \in Live /\ av[j] /\ rem[j] > 0
                       THEN passed[j] + 1 ELSE 0]

\* The child poll of slot `index` and the match on its result.
MergeChildPoll ==
    /\ kind = "merge"
    /\ pc = "child"
    /\ handed' = [handed EXCEPT ![index] = TRUE]
    /\ badPoll' = (badPoll \/ (cdone[index] /\ PollsInner(index)))
    /\ \E w \in SyncWakes(index) :
         /\ wokenBy' = SyncWake(w)[2]
         /\ deadlock' = SyncWake(w)[3]
         /\ CASE FusePoll(index) = "item" ->
                   \* Poll::Ready(Some(item)): set_ready(index), return it
                   /\ remaining' = [remaining EXCEPT ![index] = @ - 1]
                   /\ \E a \in BOOLEAN : avail' = [avail EXCEPT ![index] = a]
                   /\ reg' = [reg EXCEPT ![index] = FALSE]
                   /\ ready' = Remark(SyncWake(w)[1], index)
                   /\ passed' = IF immediate
                                  THEN Passed(index, avail', remaining')
                                  ELSE passed
                   /\ pc' = "idle"
                   /\ ret' = "item"
                   /\ index' = 0
                   /\ start' = 0
                   /\ polls' = NoPolls
                   /\ fired' = NoWake
                   /\ UNCHANGED << cdone, fused, complete, immediate >>
              [] FusePoll(index) = "done" ->
                   \* Poll::Ready(None): count it, return if all are counted
                   /\ cdone' = [cdone EXCEPT ![index] = TRUE]
                   /\ fused' = [fused EXCEPT ![index] = TRUE]
                   /\ reg' = [reg EXCEPT ![index] = FALSE]
                   /\ complete' = complete + 1
                   /\ ready' = SyncWake(w)[1]
                   /\ immediate' = FALSE
                   /\ passed' = [j \in Slots |-> 0]
                   /\ IF AllComplete(complete')
                        THEN /\ pc' = "done"
                             /\ ret' = "done"
                             /\ index' = 0
                             /\ start' = 0
                             /\ polls' = NoPolls
                             /\ fired' = NoWake
                        ELSE /\ pc' = "relock"
                             /\ polls' = CountPoll(polls, index)
                             /\ fired' = w
                             /\ UNCHANGED << ret, index, start >>
                   /\ UNCHANGED << remaining, avail >>
              [] FusePoll(index) = "pending" ->
                   \* Poll::Pending: the child keeps the waker
                   /\ reg' = [reg EXCEPT ![index] = TRUE]
                   /\ ready' = SyncWake(w)[1]
                   /\ immediate' = FALSE
                   /\ passed' = [j \in Slots |-> 0]
                   /\ pc' = "relock"
                   /\ polls' = CountPoll(polls, index)
                   /\ fired' = w
                   /\ UNCHANGED << remaining, avail, cdone, fused, complete,
                                   ret, index, start >>
    /\ UNCHANGED << kind, LEN, lock, parent_waker, fault, repoll, skipped >>
    /\ UNCHANGED joinVars

\* `readiness = this.wakers.readiness().lock().unwrap()` at the loop's end
\* and the scan up to the next child poll.
MergeRelock ==
    /\ kind = "merge"
    /\ pc = "relock"
    /\ lock = "free"
    /\ MergeScan(ready, index, start, polls)
    /\ UNCHANGED << kind, LEN, parent_waker, wokenBy, avail, cdone, reg,
                    handed, fault, deadlock, badPoll, repoll, skipped >>
    /\ UNCHANGED << remaining, fused, complete, passed, immediate >>
    /\ UNCHANGED joinVars

\* A Merge dropped between two polls or after the last: no Drop impl, the
\* fields are dropped.
MergeDrop ==
    /\ kind = "merge"
    /\ pc \in {"idle", "done"}
    /\ pc' = "dropped"
    /\ UNCHANGED << kind, LEN, index, lock, ready, parent_waker, wokenBy,
                    avail, cdone, reg, handed, fault, deadlock, fired,
                    badPoll, ret, repoll, polls, skipped >>
    /\ UNCHANGED mergeVars
    /\ UNCHANGED joinVars

----
\* Specifications

JoinNext ==
    \/ Join0Poll
    \/ JoinPollBegin
    \/ JoinPollAgain
    \/ JoinChildPoll
    \/ JoinRelock
    \/ JoinDrop

MergeNext ==
    \/ MergePollBegin
    \/ MergeChildPoll
    \/ MergeRelock
    \/ MergeDrop

EnvNext ==
    \/ \E i \in Slots : ChildProgress(i)
    \/ \E i \in Slots : LateWake(i)

Next == JoinNext \/ MergeNext \/ EnvNext

Spec == Init /\ [][Next]_vars

\* The outer scheduler polls again after the waker of its last poll was
\* invoked, and polls a first time.
Woken == wokenBy = Latest \/ ret = "none"

\* Join driven to completion: no drop, no poll after Poll::Ready.
JoinLiveInit == Init /\ kind = "join" /\ LEN >= 1

JoinLiveNext ==
    \/ JoinPollBegin
    \/ JoinChildPoll
    \/ JoinRelock
    \/ \E i \in Slots : ChildProgress(i)
    \/ \E i \in Slots : LateWake(i)

\* Every child eventually can progress and then fires the waker it kept; a
\* running poll runs on; the scheduler polls again after a wake.
JoinLiveSpec ==
    /\ JoinLiveInit
    /\ [][JoinLiveNext]_vars
    /\ WF_vars(JoinPollBegin /\ Woken)
    /\ WF_vars(JoinChildPoll)
    /\ WF_vars(JoinRelock)
    /\ \A i \in Slots : WF_vars(ChildProgress(i))

\* Merge consumed until Poll::Ready(None): no drop.
MergeLiveInit == Init /\ kind = "merge" /\ LEN >= 1

MergeLiveNext ==
    \/ MergePollBegin
    \/ MergeChildPoll
    \/ MergeRelock
    \/ \E i \in Slots : ChildProgress(i)
    \/ \E i \in Slots : LateWake(i)

\* As for Join; the caller also calls poll_next again after every item.
MergeLiveSpec ==
    /\ MergeLiveInit
    /\ [][MergeLiveNext]_vars
    /\ WF_vars(MergePollBegin /\ (Woken \/ ret = "item"))
    /\ WF_vars(MergeChildPoll)
    /\ WF_vars(MergeRelock)
    /\ \A i \in Slots : WF_vars(ChildProgress(i))

----
\* Properties

\* C1: when Join::poll returns Ready, element i of the tuple is the value
\* child i produced, whatever the order of completion.
JoinOutputByPosition ==
    (kind = "join" /\ LEN >= 1 /\ ret = "ready") =>
        /\ Len(out) = LEN
        /\ \A i \in Live : out[i + 1] = ChildValue(i)

\* C1 witness: Ready returned after the last child completed first, which
\* takes more than one outer poll.
JoinReadyOutOfOrder ==
    kind = "join" /\ ret = "ready" /\ LEN = MaxN /\ order[1] = LEN - 1

\* C2: a Join over N >= 1 children whose children all eventually produce
\* their value and wake, polled again after each wake, returns Ready.
JoinEventuallyReady == <>(pc = "done")

\* C2 witness: Ready returned although child 0 was the last to complete, so
\* only after it had answered Pending and the Join was polled again.
JoinReadyAfterPending ==
    kind = "join" /\ pc = "done" /\ LEN >= 2 /\ order[LEN] = 0

\* C3: when poll_next returns Done, every item of every input sequence has
\* been returned: none is left in a sequence.
MergeDeliversAll ==
    (kind = "merge" /\ ret = "done") => \A i \in Live : remaining[i] = 0

\* C4: the completion counter equals the number of exhausted sequences and
\* never exceeds N.
CompleteCountsExhausted ==
    kind = "merge" =>
        /\ complete = Cardinality({ i \in Live : fused[i] })
        /\ complete <= LEN

\* C5: a Join dropped before it returned Ready has destroyed every value a
\* child produced exactly once, and touched no cell of a Pending slot.
DropDestroysProduced ==
    (kind = "join" /\ pc = "dropped" /\ ret # "ready") =>
        /\ ~fault
        /\ \A i \in Live :
             /\ destroyed[i] = writes[i]
             /\ destroyed[i] = IF cdone[i] THEN 1 ELSE 0
             /\ state[i] = (IF cdone[i] THEN "Consumed" ELSE "Pending")

\* C5 witness: a Join dropped with one child done and one still pending.
DroppedHalfDone ==
    /\ kind = "join" /\ pc = "dropped" /\ LEN = 2 /\ completed = 1
    /\ \E i \in Live : destroyed[i] = 1

\* C6: a poll after Poll::Ready fails with the assertion, for every N.
RepollPanics == repoll \in {"none", "panic"}

\* C7: the readiness lock is free whenever a child is polled, and no waker
\* fired from inside a child poll finds it held.
LockFreeAtChildPoll == (pc = "child" => lock = "free") /\ ~deadlock

\* C7 witness: a child fired its own waker from inside its poll, the poll
\* has returned and the outer poll is about to take the lock again.
ChildWokeItself ==
    pc = "relock" /\ fired = index /\ ready[index] /\ lock = "free"

\* C8: a Merge over N >= 1 sequences that all eventually report exhaustion
\* and wake, polled on, returns Done.
MergeEventuallyDone == <>(pc = "done")

\* C8 witness: Done returned by a Merge of the largest size with every
\* sequence drained and exhausted, after some child poll gave no item.
MergeDoneAfterItems ==
    /\ kind = "merge" /\ pc = "done" /\ LEN = MaxN
    /\ \A i \in Live : remaining[i] = 0 /\ fused[i]
    /\ ~immediate

\* C9 as stated: with N sequences ready on every poll, no sequence is passed
\* over for more than N-1 consecutive yields.
PassedOverAtMostN ==
    (kind = "merge" /\ immediate) => \A i \in Live : passed[i] <= LEN - 1

\* C9 amended: with N sequences ready on every poll, a poll_next call yields
\* the item of slot (start + 1) mod N, start being the generator's index.
YieldsStartSuccessor ==
    (kind = "merge" /\ immediate /\ pc = "child") =>
        index = (start + 1) % LEN

\* C9 witness: a sequence with an item ready was passed over N times in a
\* row, and the next call is about to poll the successor of its start.
PassedOverNTimes ==
    /\ kind = "merge" /\ immediate /\ pc = "child" /\ LEN >= 2
    /\ \E i \in Live : passed[i] >= LEN

\* C10: after the final result or the drop, a fired waker invokes no outer
\* waker.
LateFireInvokesNothing ==
    [][(pc \in {"done", "dropped"}) => (wokenBy' = wokenBy)]_vars

\* C11: Join polls no child whose slot is Ready or Consumed, and no child
\* that has produced its value, whatever wakers fired since.
JoinNeverRepolls ==
    kind = "join" =>
        /\ ~badPoll
        /\ pc = "child" => (state[index] = "Pending" /\ ~cdone[index])

\* C11 witness: a poll consumed the set flag of a slot whose child had
\* already produced its value, polled no such child, and goes on to poll a
\* later slot.
SpuriousFlagConsumed ==
    kind = "join" /\ pc = "child" /\ skipped # {} /\ ~badPoll

\* C12: once an input stream of a Merge has reported exhaustion it is not
\* polled again; every later poll of its slot is answered Done by the Fuse.
MergeNeverRepollsExhausted ==
    kind = "merge" =>
        /\ ~badPoll
        /\ \A i \in Live : cdone[i] => FusePoll(i) = "done"

\* C12 witness: the slot of an exhausted stream was polled again after a
\* waker fired (its exhaustion is counted twice) and the stream itself was
\* not reached.
ExhaustedPolledAgain ==
    /\ kind = "merge" /\ ~badPoll
    /\ complete > Cardinality({ i \in Live : fused[i] })

\* C13: a Join of zero children never returns Pending and never stores a
\* waker; its first poll returns Ready with the empty tuple.
JoinZeroReadyAtOnce ==
    (kind = "join" /\ LEN = 0) =>
        /\ ret \in {"none", "ready"}
        /\ parent_waker = NoWaker
        /\ ret = "ready" => (pc = "done" /\ out = << >>)

\* C13 witness: the first poll of a Join of zero children has returned.
JoinZeroPolled ==
    kind = "join" /\ LEN = 0 /\ ret = "ready" /\ repoll = "none"

\* C14: a Merge over zero streams answers poll_next with Done.
MergeZeroDone ==
    (kind = "merge" /\ LEN = 0 /\ ret # "none") => ret = "done"

\* C15: one poll_next call polls every slot at most once, so at most N
\* children.
MergePollsEachSlotOnce ==
    (kind = "merge" /\ pc = "child") => index \notin polls

\* C16: no wake is lost.  A waker fired inside a child poll leaves its flag
\* set when the poll is over, and while a combinator rests on a Pending
\* with some flag set, the waker that poll registered has been invoked.
NoLostWake ==
    /\ (pc = "relock" /\ fired # NoWake) => ready[fired]
    /\ (pc = "idle" /\ ret = "pending" /\ any_ready(ready)) =>
           wokenBy = Latest

\* C16 witness: the last child of a Join fired its own waker inside its
\* poll and answered Pending; its flag is set, the outer waker has been
\* invoked, and the poll is about to return Pending.
WokenWhilePolled ==
    /\ kind = "join" /\ pc = "relock" /\ index = LEN - 1
    /\ fired = index /\ state[index] = "Pending"
    /\ ready[index] /\ wokenBy = Latest

\* Slot i has not been selected for polling since construction: its flag
\* was never consumed to poll its child.
NeverSelected(i) == ~handed[i] /\ ~(pc = "child" /\ index = i)

\* C17 as stated: the flag of slot i is set if slot i was not polled since
\* construction or its waker fired since it was last polled.  Flags are set
\* at construction and by every fired waker, so this says: the flag of a
\* slot not polled yet is set, and a set flag stays set until its slot is
\* selected for polling.
FlagSetUntilPolled ==
    /\ [](\A i \in Live : NeverSelected(i) => ready[i])
    /\ [][\A i \in Live : (ready[i] /\ ~ready'[i]) =>
                               (pc' = "child" /\ index' = i)]_vars

\* C17 amended: as stated, except that Join consumes without polling the
\* flag of a slot whose child has already produced its value.
FlagSetUntilConsumed ==
    /\ [](\A i \in Live : NeverSelected(i) => ready[i])
    /\ [][\A i \in Live : (ready[i] /\ ~ready'[i]) =>
                               \/ pc' = "child" /\ index' = i
                               \/ kind = "join" /\ state[i] = "Ready"]_vars

\* C17 witness: a Join poll consumed the set flag of a finished child
\* without polling it, then polled a later child, which fired its own waker:
\* that flag is set.
FlagKeptAndFlagDropped ==
    /\ kind = "join" /\ pc = "relock" /\ skipped # {}
    /\ fired = index /\ ready[index]

\* The values of cell i moved into the returned tuple.
Moved(i) == IF LEN > 0 /\ Len(out) = LEN THEN 1 ELSE 0

\* C18: every output cell of a Join is written at most once, and a written
\* value leaves its cell at most once, moved into the tuple or destroyed by
\* the drop; once the Join has returned Ready or is dropped, exactly once.
CellsWrittenAndLeftOnce ==
    kind = "join" =>
        /\ ~fault
        /\ \A i \in Live :
             /\ writes[i] <= 1
             /\ destroyed[i] + Moved(i) <= writes[i]
             /\ pc \in {"done", "dropped", "panicked"} =>
                    destroyed[i] + Moved(i) = writes[i]
             /\ Moved(i) = 1 => destroyed[i] = 0

\* C18 witness: a Join of the largest size dropped after it returned Ready;
\* every cell was written once and none was destroyed.
DroppedAfterReady ==
    /\ kind = "join" /\ pc = "dropped" /\ LEN = MaxN /\ Len(out) = LEN
    /\ \A i \in Live : writes[i] = 1 /\ destroyed[i] = 0

\* C19: the step in which a child of a Merge yields an item takes exactly
\* that item, ends the poll_next call with Item and leaves the slot's flag
\* set.
ItemReturnsAtOnce ==
    [][(kind = "merge" /\ remaining' # remaining) =>
          /\ pc = "child" /\ pc' = "idle" /\ ret' = "item"
          /\ remaining' = [remaining EXCEPT ![index] = @ - 1]
          /\ ready'[index]]_vars

\* C19 witness: a Merge over one stream has returned an item of a stream
\* that has more; no waker was invoked since that call began, and the flag
\* the call consumed is set again.
ItemWithoutWake ==
    /\ kind = "merge" /\ LEN = 1 /\ pc = "idle" /\ ret = "item"
    /\ remaining[0] >= 1 /\ ready[0] /\ wokenBy = NoWaker

\* C20: a Join poll polls its children in increasing slot order, each at
\* most once; the first poll passes over no slot, and once it has returned
\* every child has been polled.
JoinPollsInOrderOnce ==
    kind = "join" =>
        /\ pc = "child" => (index \notin polls /\ \A j \in polls : j < index)
        /\ Cardinality(polls) <= LEN
        /\ (ret = "none" /\ pc = "child") => polls = { j \in Live : j < index }
        /\ ret # "none" => \A i \in Live : handed[i]

\* C20 witness: the first poll of a Join of the largest size has polled
\* every child but the last and is about to poll the last.
FirstPollAtLastChild ==
    /\ kind = "join" /\ LEN = MaxN /\ ret = "none" /\ pc = "child"
    /\ index = LEN - 1 /\ polls = { j \in Live : j < index }

\* C21: while a child of a Join of N >= 1 children or of a Merge is polled,
\* the stored outer waker is the one of the running outer poll, and a fired
\* waker never invokes the outer waker of an earlier outer poll.
LateWakeInvokesLatest ==
    ((kind = "join" /\ LEN >= 1) \/ kind = "merge") =>
        /\ pc = "child" => parent_waker = Latest
        /\ wokenBy # Stale

\* The slots of a Join whose state is Ready.
ReadySlots == { i \in Live : state[i] = "Ready" }

\* C22: until a Join of N >= 1 children returns Ready, its counter equals
\* the number of Ready slots and is at most N; when it has returned Ready
\* the counter is N, every cell was initialized when the tuple was assembled
\* and every slot is Consumed.
CompletedCountsReady ==
    (kind = "join" /\ LEN >= 1) =>
        /\ (pc \in {"idle", "child", "relock"}) =>
               /\ completed = Cardinality(ReadySlots)
               /\ completed \in 0 .. (LEN - 1)
        /\ Len(out) = LEN =>
               /\ completed = LEN
               /\ ~fault
               /\ \A i \in Live : state[i] = "Consumed"
        /\ completed \in 0 .. LEN

\* C22 witness: a Join of the largest size rests on a Pending with all
\* children but one counted; their slots are Ready.
OneShortOfReady ==
    /\ kind = "join" /\ LEN = MaxN /\ pc = "idle" /\ ret = "pending"
    /\ completed = LEN - 1 /\ Cardinality(ReadySlots) = LEN - 1
====
